---- MODULE Spec2Model ----
(***************************************************************************)
(* A model of the term-grid layout engine (src/src/lib.rs): the Grid with  *)
(* its append-only cell vector and bookkeeping, the two dimension solvers  *)
(* (fit_into_columns, fit_into_width) and the renderer (Display::fmt).     *)
(*                                                                         *)
(* usize values are modelled as naturals.  A usize computation that aborts *)
(* the call (division by zero, subtraction below zero, index or slice out  *)
(* of bounds) yields the out-of-band value Abort, or a result whose kind   *)
(* names the abort.  Strings are ASCII, so that the display width that     *)
(* unicode_width reports for a string is its length.                       *)
(***************************************************************************)
EXTENDS Integers, Sequences, FiniteSets, TLC

\* ------------------------------------------------------------------------
\* Bounds of the model
\* ------------------------------------------------------------------------
MaxCells == 4        \* cells added one by one from CellStrings
MaxWidth == 7        \* fit_into_width is asked for 0..MaxWidth
MaxColumns == 5      \* fit_into_columns is asked for 0..MaxColumns
MaxSpaces == 3       \* Filling::Spaces(0..MaxSpaces)

\* ------------------------------------------------------------------------
\* Inputs
\* ------------------------------------------------------------------------
CellStrings == {"", "a", "bb", "ccc"}

Directions == {"LeftToRight", "TopToBottom"}

Spaces(n) == [kind |-> "Spaces", n |-> n, t |-> ""]

Text(s) == [kind |-> "Text", n |-> 0, t |-> s]

Fillings == {Spaces(n) : n \in 0..MaxSpaces} \cup {Text(" | ")}

TabSizes == {0, 2}

\* tab_size is an i32: a caller may set a negative one.
NegativeTabOptions ==
  [direction |-> "TopToBottom", filling |-> Spaces(2), tab_size |-> -1]

\* The crate documentation's example: twelve words, one space, row-major.
ExampleWords ==
  <<"one", "two", "three", "four", "five", "six", "seven", "eight", "nine",
    "ten", "eleven", "twelve">>

ExampleOptions ==
  [direction |-> "LeftToRight", filling |-> Spaces(1), tab_size |-> 8]

ExampleWidth == 24

\* The regression test possible_underflow: the decimal powers of two.
Pow2Count == 48

Pow2Options ==
  [direction |-> "TopToBottom", filling |-> Text(" | "), tab_size |-> 8]

Pow2Width == 15

\* ------------------------------------------------------------------------
\* Values
\* ------------------------------------------------------------------------
Abort == -1

RECURSIVE repeat(_, _)
repeat(s, n) == IF n <= 0 THEN "" ELSE s \o repeat(s, n - 1)

\* Loops over the cells or the columns are folded by halves (the left half
\* first, then the right half), which gives what the loop from the first to
\* the last element gives.

\* iter().sum() of s[lo..hi]
RECURSIVE SumRange(_, _, _)
SumRange(s, lo, hi) ==
  IF lo > hi THEN 0
  ELSE IF lo = hi THEN s[lo]
  ELSE LET mid == (lo + hi) \div 2
       IN SumRange(s, lo, mid) + SumRange(s, mid + 1, hi)

\* iter().sum()
SumSeq(s) == SumRange(s, 1, Len(s))

\* The largest number of a set of widths, 0 for the empty set.
MaxOf(S) == IF S = {} THEN 0 ELSE CHOOSE m \in S : \A x \in S : x <= m

\* The sequence f[lo], ..., f[hi] of a function f.
RECURSIVE seq_of(_, _, _)
seq_of(f, lo, hi) ==
  IF lo > hi THEN <<>>
  ELSE IF lo = hi THEN <<f[lo]>>
  ELSE LET mid == (lo + hi) \div 2
       IN seq_of(f, lo, mid) \o seq_of(f, mid + 1, hi)

\* vec![value; n]
vec(value, n) == seq_of([i \in 1..n |-> value], 1, n)

\* iter().map(|cell| cell.width).collect()
widths_of(cs, n) == seq_of([i \in 1..n |-> cs[i].width], 1, n)

\* usize subtraction: below zero it overflows (a panic in a debug build, a
\* wrap-around to a huge value in a release build).
checked_sub(a, b) == IF a < b THEN Abort ELSE a - b

\* impl From<&str> for Cell
CellFrom(string) == [contents |-> string, width |-> Len(string)]

\* (0..48).map(|i| 2_isize.pow(i).to_string()).collect(): 2^0 .. 2^47.
Pow2Words ==
  <<"1", "2", "4", "8", "16", "32", "64", "128", "256", "512", "1024",
    "2048", "4096", "8192", "16384", "32768", "65536", "131072", "262144",
    "524288", "1048576", "2097152", "4194304", "8388608", "16777216",
    "33554432", "67108864", "134217728", "268435456", "536870912",
    "1073741824", "2147483648", "4294967296", "8589934592", "17179869184",
    "34359738368", "68719476736", "137438953472", "274877906944",
    "549755813888", "1099511627776", "2199023255552", "4398046511104",
    "8796093022208", "17592186044416", "35184372088832", "70368744177664",
    "140737488355328">>

\* Filling::width
filling_width(filling) ==
  IF filling.kind = "Spaces" THEN filling.n ELSE Len(filling.t)

\* ------------------------------------------------------------------------
\* div_ceil
\* ------------------------------------------------------------------------
div_ceil(lhs, rhs) ==
  IF rhs = 0 THEN Abort
  ELSE LET d == lhs \div rhs
           r == lhs % rhs
       IN IF r > 0 /\ rhs > 0 THEN d + 1 ELSE d

\* ------------------------------------------------------------------------
\* Dimensions, and the results of the solvers
\* ------------------------------------------------------------------------
Some(num_lines, widths) ==
  [kind |-> "Some", num_lines |-> num_lines, widths |-> widths]

None == [kind |-> "None", num_lines |-> 0, widths |-> <<>>]

Aborted(why) == [kind |-> why, num_lines |-> 0, widths |-> <<>>]

AbortKinds == {"DivisionByZero", "SubtractOverflow", "IndexOutOfBounds"}

\* Dimensions::total_width
total_width(dims, separator_width) ==
  IF Len(dims.widths) = 0 THEN 0
  ELSE LET values == SumSeq(dims.widths)
           separators == separator_width * (Len(dims.widths) - 1)
       IN values + separators

\* ------------------------------------------------------------------------
\* Grid::column_widths
\* ------------------------------------------------------------------------
\* column_of with the directions the wrong way round.
column_of_swapped(direction, index, num_lines, num_columns) ==
  IF direction = "TopToBottom"
  THEN (IF num_columns = 0 THEN Abort ELSE index % num_columns)
  ELSE (IF num_lines = 0 THEN Abort ELSE index \div num_lines)

\* The column of the cell at `index` (0-based), or Abort.
column_of(direction, index, num_lines, num_columns) ==
  IF direction = "LeftToRight"
  THEN (IF num_columns = 0 THEN Abort ELSE index % num_columns)
  ELSE (IF num_lines = 0 THEN Abort ELSE index \div num_lines)

\* Grid::column_widths.  The loop raises widths[col] to the width of every
\* cell mapped to col; it aborts at the first cell whose column cannot be
\* computed (the divisor is the same for every cell) or is not an index of
\* widths.
column_widths(g, num_lines, num_columns) ==
  LET indices == 0..(Len(g.cells) - 1)
      col(index) == column_of(g.options.direction, index, num_lines, num_columns)
      widest(c) == MaxOf({0} \cup {g.cells[index + 1].width :
                                     index \in {i \in indices : col(i) = c}})
  IN IF \E index \in indices : col(index) = Abort
     THEN Aborted("DivisionByZero")
     ELSE IF \E index \in indices : col(index) >= num_columns
     THEN Aborted("IndexOutOfBounds")
     ELSE Some(num_lines,
               seq_of([c \in 1..num_columns |-> widest(c - 1)], 1, num_columns))

\* Grid::columns_dimensions
columns_dimensions(g, num_columns) ==
  LET num_lines == div_ceil(Len(g.cells), num_columns)
  IN IF num_lines = Abort THEN Aborted("DivisionByZero")
     ELSE column_widths(g, num_lines, num_columns)

\* ------------------------------------------------------------------------
\* Grid::theoretical_max_num_lines
\* ------------------------------------------------------------------------
\* widths.sort_unstable_by(|a, b| b.cmp(a)): position k holds the value v
\* with fewer than k elements above it and at least k elements not below.
sort_desc(s) ==
  [k \in 1..Len(s) |->
     LET values == {s[j] : j \in 1..Len(s)}
     IN CHOOSE v \in values :
          /\ Cardinality({j \in 1..Len(s) : s[j] > v}) < k
          /\ k <= Cardinality({j \in 1..Len(s) : s[j] >= v})]

RECURSIVE max_num_lines_loop(_, _, _, _, _)
max_num_lines_loop(g, widths, maximum_width, i, col_total_width_so_far) ==
  IF i >= Len(widths) THEN 1
  ELSE LET width == widths[i + 1]
       IN IF width + col_total_width_so_far <= maximum_width
          THEN max_num_lines_loop(g, widths, maximum_width, i + 1,
                 col_total_width_so_far + filling_width(g.options.filling) + width)
          ELSE div_ceil(g.cell_count, i)

theoretical_max_num_lines(g, maximum_width) ==
  LET widths == sort_desc(widths_of(g.cells, Len(g.cells)))
  IN max_num_lines_loop(g, widths, maximum_width, 0, 0)

\* ------------------------------------------------------------------------
\* Grid::width_dimensions
\* ------------------------------------------------------------------------
\* candidate accepting a sum equal to the adjusted width.
candidate_le(g, maximum_width, num_lines) ==
  LET num_columns == div_ceil(g.cell_count, num_lines)
      columns_less_one == checked_sub(num_columns, 1)
      total_separator_width == columns_less_one * filling_width(g.options.filling)
  IN IF num_columns = Abort THEN [step |-> "abort", dims |-> Aborted("DivisionByZero")]
     ELSE IF columns_less_one = Abort
     THEN [step |-> "abort", dims |-> Aborted("SubtractOverflow")]
     ELSE IF maximum_width < total_separator_width
     THEN [step |-> "skip", dims |-> None]
     ELSE LET adjusted_width == checked_sub(maximum_width, total_separator_width)
              potential_dimensions == column_widths(g, num_lines, num_columns)
          IN IF adjusted_width = Abort
             THEN [step |-> "abort", dims |-> Aborted("SubtractOverflow")]
             ELSE IF potential_dimensions.kind # "Some"
             THEN [step |-> "abort", dims |-> potential_dimensions]
             ELSE IF SumSeq(potential_dimensions.widths) <= adjusted_width
             THEN [step |-> "fits", dims |-> potential_dimensions]
             ELSE [step |-> "stop", dims |-> None]

\* candidate without the early abort on the width of the separators.
candidate_unguarded(g, maximum_width, num_lines) ==
  LET num_columns == div_ceil(g.cell_count, num_lines)
      columns_less_one == checked_sub(num_columns, 1)
      total_separator_width == columns_less_one * filling_width(g.options.filling)
  IN IF num_columns = Abort THEN [step |-> "abort", dims |-> Aborted("DivisionByZero")]
     ELSE IF columns_less_one = Abort
     THEN [step |-> "abort", dims |-> Aborted("SubtractOverflow")]
     ELSE LET adjusted_width == checked_sub(maximum_width, total_separator_width)
              potential_dimensions == column_widths(g, num_lines, num_columns)
          IN IF adjusted_width = Abort
             THEN [step |-> "abort", dims |-> Aborted("SubtractOverflow")]
             ELSE IF potential_dimensions.kind # "Some"
             THEN [step |-> "abort", dims |-> potential_dimensions]
             ELSE IF SumSeq(potential_dimensions.widths) < adjusted_width
             THEN [step |-> "fits", dims |-> potential_dimensions]
             ELSE [step |-> "stop", dims |-> None]

\* One candidate of the search: "skip" (the separators alone are too wide),
\* "fits", "stop" (the first candidate that does not fit) or an abort.
candidate(g, maximum_width, num_lines) ==
  LET num_columns == div_ceil(g.cell_count, num_lines)
      columns_less_one == checked_sub(num_columns, 1)
      total_separator_width == columns_less_one * filling_width(g.options.filling)
  IN IF num_columns = Abort THEN [step |-> "abort", dims |-> Aborted("DivisionByZero")]
     ELSE IF columns_less_one = Abort
     THEN [step |-> "abort", dims |-> Aborted("SubtractOverflow")]
     ELSE IF maximum_width < total_separator_width
     THEN [step |-> "skip", dims |-> None]
     ELSE LET adjusted_width == checked_sub(maximum_width, total_separator_width)
              potential_dimensions == column_widths(g, num_lines, num_columns)
          IN IF adjusted_width = Abort
             THEN [step |-> "abort", dims |-> Aborted("SubtractOverflow")]
             ELSE IF potential_dimensions.kind # "Some"
             THEN [step |-> "abort", dims |-> potential_dimensions]
             ELSE IF SumSeq(potential_dimensions.widths) < adjusted_width
             THEN [step |-> "fits", dims |-> potential_dimensions]
             ELSE [step |-> "stop", dims |-> None]

RECURSIVE search(_, _, _, _)
search(g, maximum_width, num_lines, smallest_dimensions_yet) ==
  IF num_lines < 1 THEN None
  ELSE LET c == candidate(g, maximum_width, num_lines)
       IN CASE c.step = "abort" -> c.dims
            [] c.step = "skip" ->
                 search(g, maximum_width, num_lines - 1, smallest_dimensions_yet)
            [] c.step = "fits" ->
                 search(g, maximum_width, num_lines - 1, c.dims)
            [] c.step = "stop" -> smallest_dimensions_yet

width_dimensions(g, maximum_width) ==
  IF g.widest_cell_length > maximum_width THEN None
  ELSE IF g.cell_count = 0 THEN Some(0, <<>>)
  ELSE IF g.cell_count = 1
  THEN (IF Len(g.cells) < 1 THEN Aborted("IndexOutOfBounds")
        ELSE Some(1, <<g.cells[1].width>>))
  ELSE LET max_lines == theoretical_max_num_lines(g, maximum_width)
       IN IF max_lines = Abort THEN Aborted("DivisionByZero")
          ELSE IF max_lines = 1
          THEN Some(1, widths_of(g.cells, Len(g.cells)))
          ELSE search(g, maximum_width, max_lines, None)

\* ------------------------------------------------------------------------
\* Display: the queries and the renderer
\* ------------------------------------------------------------------------
\* Display::width
Display_width(g, dims) == total_width(dims, filling_width(g.options.filling))

\* Display::row_count
row_count(dims) == dims.num_lines

\* is_complete satisfied by a single column of positive width.
is_complete_any(dims) == \E i \in 1..Len(dims.widths) : dims.widths[i] > 0

\* Display::is_complete
is_complete(dims) == \A i \in 1..Len(dims.widths) : dims.widths[i] > 0

\* separator_of without tab compression: always the n spaces.
separator_of_plain(options) ==
  IF options.filling.kind = "Spaces"
  THEN repeat(" ", options.filling.n)
  ELSE options.filling.t

\* The separator string that fmt derives from the filling and tab_size.
separator_of(options) ==
  IF options.filling.kind = "Spaces"
  THEN (IF options.tab_size <= 0
        THEN repeat(" ", options.filling.n)
        ELSE LET tab_count == options.filling.n \div options.tab_size
                 remaining_spaces == options.filling.n % options.tab_size
             IN repeat("\t", tab_count) \o repeat(" ", remaining_spaces))
  ELSE options.filling.t

\* cell_index stepping row-major rows by the number of lines.
cell_index_by_lines(direction, dims, y, x) ==
  IF direction = "LeftToRight"
  THEN y * dims.num_lines + x
  ELSE y + dims.num_lines * x

\* The linear index of the cell rendered at row y, column x.
cell_index(direction, dims, y, x) ==
  IF direction = "LeftToRight"
  THEN y * Len(dims.widths) + x
  ELSE y + dims.num_lines * x

Rendered(text, placed) == [kind |-> "Ok", text |-> text, placed |-> placed]

RenderAborted(why, text) == [kind |-> why, text |-> text, placed |-> <<>>]

\* What `first` has written, followed by what `then` writes; nothing more is
\* written after an abort.
join(first, then) ==
  IF first.kind # "Ok" THEN first
  ELSE [kind |-> then.kind,
        text |-> first.text \o then.text,
        placed |-> first.placed \o then.placed]

\* The body of the inner loop of fmt: what is written for row y, column x.
\* placed records, for every cell written, where it was written and with how
\* much padding.
fmt_cell(g, dims, y, x) ==
  LET num == cell_index(g.options.direction, dims, y, x)
  IN IF num >= Len(g.cells) THEN Rendered("", <<>>)
     ELSE LET cell == g.cells[num + 1]
              last_in_row == (x = Len(dims.widths) - 1)
              col_width == dims.widths[x + 1]
              padding_size == checked_sub(col_width, cell.width)
              padding == repeat(" ", g.widest_cell_length)
              entry == [y |-> y, x |-> x, num |-> num,
                        padding_size |-> padding_size]
          IN IF padding_size = Abort THEN RenderAborted("SubtractOverflow", "")
             ELSE IF last_in_row THEN Rendered(cell.contents, <<entry>>)
             ELSE IF padding_size > 0 /\ padding_size > Len(padding)
             THEN RenderAborted("IndexOutOfBounds", cell.contents)
             ELSE Rendered(cell.contents \o repeat(" ", padding_size)
                                         \o separator_of(g.options),
                           <<entry>>)

\* The inner loop of fmt over the columns lo .. hi - 1 of row y.
RECURSIVE fmt_cells(_, _, _, _, _)
fmt_cells(g, dims, y, lo, hi) ==
  IF lo >= hi THEN Rendered("", <<>>)
  ELSE IF hi = lo + 1 THEN fmt_cell(g, dims, y, lo)
  ELSE LET mid == (lo + hi) \div 2
           left == fmt_cells(g, dims, y, lo, mid)
           right == fmt_cells(g, dims, y, mid, hi)
       IN join(left, right)

\* One row: its cells, then the newline.
fmt_row(g, dims, y) ==
  LET written == fmt_cells(g, dims, y, 0, Len(dims.widths))
  IN join(written, Rendered("\n", <<>>))

\* The outer loop of fmt over the rows lo .. hi - 1.
RECURSIVE fmt_rows(_, _, _, _)
fmt_rows(g, dims, lo, hi) ==
  IF lo >= hi THEN Rendered("", <<>>)
  ELSE IF hi = lo + 1 THEN fmt_row(g, dims, lo)
  ELSE LET mid == (lo + hi) \div 2
           upper == fmt_rows(g, dims, lo, mid)
           lower == fmt_rows(g, dims, mid, hi)
       IN join(upper, lower)

\* impl fmt::Display for Display
fmt(g, dims) == fmt_rows(g, dims, 0, dims.num_lines)

\* ------------------------------------------------------------------------
\* The state machine: a Grid, the Display last obtained from it, and the
\* text last rendered from that Display
\* ------------------------------------------------------------------------
VARIABLES options, cells, widest_cell_length, width_sum, cell_count,
          display, output

vars == <<options, cells, widest_cell_length, width_sum, cell_count,
          display, output>>

Grid == [options |-> options, cells |-> cells,
         widest_cell_length |-> widest_cell_length,
         width_sum |-> width_sum, cell_count |-> cell_count]

NoDisplay == [op |-> "none", arg |-> 0, result |-> None]

NoOutput == [kind |-> "Idle", text |-> "", placed |-> <<>>]

OptionsSet ==
  [direction : Directions, filling : Fillings, tab_size : TabSizes]
    \cup {ExampleOptions, Pow2Options, NegativeTabOptions}

\* The widths asked for: any small one, and the one of the documentation
\* example or of the regression test on their own grids.
QueryWidths ==
  0..MaxWidth
    \cup (IF options = ExampleOptions THEN {ExampleWidth} ELSE {})
    \cup (IF options = Pow2Options THEN {Pow2Width} ELSE {})

\* No call has aborted the process.
Running == display.result.kind \notin AbortKinds /\ output.kind \notin AbortKinds

\* Grid::new
Init ==
  /\ options \in OptionsSet
  /\ cells = <<>>
  /\ widest_cell_length = 0
  /\ width_sum = 0
  /\ cell_count = 0
  /\ display = NoDisplay
  /\ output = NoOutput

\* add overwriting width_sum with the width of the new cell.
add_sum_replaced(cell) ==
  /\ Running
  /\ widest_cell_length' =
       IF cell.width > widest_cell_length THEN cell.width ELSE widest_cell_length
  /\ width_sum' = cell.width
  /\ cell_count' = cell_count + 1
  /\ cells' = Append(cells, cell)
  /\ display' = NoDisplay
  /\ output' = NoOutput
  /\ UNCHANGED options

\* add taking the width of the last cell as the widest.
add_last_widest(cell) ==
  /\ Running
  /\ widest_cell_length' = cell.width
  /\ width_sum' = width_sum + cell.width
  /\ cell_count' = cell_count + 1
  /\ cells' = Append(cells, cell)
  /\ display' = NoDisplay
  /\ output' = NoOutput
  /\ UNCHANGED options

\* Grid::add.  It takes &mut self, so no Display borrowed from the grid is
\* alive any more.
add(cell) ==
  /\ Running
  /\ widest_cell_length' =
       IF cell.width > widest_cell_length THEN cell.width ELSE widest_cell_length
  /\ width_sum' = width_sum + cell.width
  /\ cell_count' = cell_count + 1
  /\ cells' = Append(cells, cell)
  /\ display' = NoDisplay
  /\ output' = NoOutput
  /\ UNCHANGED options

\* A caller adds any short string.
AddCell ==
  /\ Len(cells) < MaxCells
  /\ \E s \in CellStrings : add(CellFrom(s))

\* The loop of the documentation example adds the twelve words in order.
AddExampleWord ==
  /\ options = ExampleOptions
  /\ Len(cells) < Len(ExampleWords)
  /\ \A i \in 1..Len(cells) : cells[i] = CellFrom(ExampleWords[i])
  /\ add(CellFrom(ExampleWords[Len(cells) + 1]))

\* The regression test adds the decimal powers of two in order.
AddPow2Word ==
  /\ options = Pow2Options
  /\ Len(cells) < Pow2Count
  /\ \A i \in 1..Len(cells) : cells[i] = CellFrom(Pow2Words[i])
  /\ add(CellFrom(Pow2Words[Len(cells) + 1]))

\* Grid::fit_into_width.  The model keeps one Display at a time: the one
\* obtained before has been dropped.
fit_into_width(maximum_width) ==
  /\ Running
  /\ display = NoDisplay
  /\ display' = [op |-> "fit_into_width", arg |-> maximum_width,
                 result |-> width_dimensions(Grid, maximum_width)]
  /\ output' = NoOutput
  /\ UNCHANGED <<options, cells, widest_cell_length, width_sum, cell_count>>

FitIntoWidth == \E maximum_width \in QueryWidths : fit_into_width(maximum_width)

\* Grid::fit_into_columns
fit_into_columns(num_columns) ==
  /\ Running
  /\ display = NoDisplay
  /\ display' = [op |-> "fit_into_columns", arg |-> num_columns,
                 result |-> columns_dimensions(Grid, num_columns)]
  /\ output' = NoOutput
  /\ UNCHANGED <<options, cells, widest_cell_length, width_sum, cell_count>>

FitIntoColumns == \E num_columns \in 0..MaxColumns : fit_into_columns(num_columns)

\* Display::fmt (to_string, println!) on the Display last obtained.
Render ==
  /\ Running
  /\ display.result.kind = "Some"
  /\ output.kind = "Idle"
  /\ output' = fmt(Grid, display.result)
  /\ UNCHANGED <<options, cells, widest_cell_length, width_sum, cell_count,
                 display>>

\* The Display (and the String rendered from it) goes out of scope.
DropDisplay ==
  /\ Running
  /\ display # NoDisplay
  /\ display' = NoDisplay
  /\ output' = NoOutput
  /\ UNCHANGED <<options, cells, widest_cell_length, width_sum, cell_count>>

Next ==
  \/ AddCell
  \/ AddExampleWord
  \/ AddPow2Word
  \/ FitIntoWidth
  \/ FitIntoColumns
  \/ Render
  \/ DropDisplay

Spec == Init /\ [][Next]_vars

TypeOK ==
  /\ options \in OptionsSet
  /\ cell_count \in Nat
  /\ display.result.kind \in {"Some", "None"} \cup AbortKinds
  /\ output.kind \in {"Idle", "Ok"} \cup AbortKinds

\* ------------------------------------------------------------------------
\* Vocabulary of the properties
\* ------------------------------------------------------------------------
N == Len(cells)

SeparatorWidth == filling_width(options.filling)

AskedWidth == display.op = "fit_into_width"

AskedColumns == display.op = "fit_into_columns"

Returned == display.result

\* ceil(n / d) for d > 0, as a number and not as the code computes it.
Ceil(n, d) == CHOOSE q \in 0..n : q * d >= n /\ (q = 0 \/ (q - 1) * d < n)

\* The column the solver's mapping gives the cell at index (0-based).
MappedColumn(index, num_lines, num_columns) ==
  IF options.direction = "LeftToRight"
  THEN index % num_columns
  ELSE index \div num_lines

\* The widths of num_columns columns over num_lines rows.
ArrangementWidthsOf(num_lines, num_columns) ==
  [c \in 1..num_columns |->
     MaxOf({0} \cup {cells[i].width :
                       i \in {j \in 1..N : MappedColumn(j - 1, num_lines, num_columns) = c - 1}})]

\* The widths of the columns of the arrangement with num_lines rows.
ArrangementWidths(num_lines) ==
  ArrangementWidthsOf(num_lines, Ceil(N, num_lines))

\* The arrangement with num_lines rows fits strictly into maximum_width.
Fits(num_lines, maximum_width) ==
  LET widths == ArrangementWidths(num_lines)
  IN SumSeq(widths) + (Len(widths) - 1) * SeparatorWidth < maximum_width

\* C1 (as stated): a layout returned by fit_into_width(maxWidth) has a total
\* width, as Display::width reports it, strictly less than maxWidth.
C1_StrictlyLess ==
  (AskedWidth /\ Returned.kind = "Some")
    => Display_width(Grid, Returned) < display.arg

\* C1 (amended): a layout returned by fit_into_width(maxWidth) has a total
\* width of at most maxWidth, and strictly less than maxWidth when it has
\* two or more rows.
C1_WithinWidth ==
  (AskedWidth /\ Returned.kind = "Some")
    => /\ Display_width(Grid, Returned) <= display.arg
       /\ Returned.num_lines >= 2 => Display_width(Grid, Returned) < display.arg

\* A layout of two or more rows that is one short of maxWidth.
C1_Witness ==
  /\ AskedWidth
  /\ Returned.kind = "Some"
  /\ Returned.num_lines >= 2
  /\ Len(Returned.widths) >= 2
  /\ Display_width(Grid, Returned) = display.arg - 1

\* C2: fit_into_width returns the fewest rows among the arrangements that
\* fit: no row count below the returned one fits.
C2_FewestRows ==
  (AskedWidth /\ Returned.kind = "Some")
    => \A fewer \in 1..(Returned.num_lines - 1) : ~Fits(fewer, display.arg)

\* C3: fit_into_width returns None only when no row count in 1..N fits.
C3_NoneOnlyIfNothingFits ==
  (AskedWidth /\ \E num_lines \in 1..N : Fits(num_lines, display.arg))
    => Returned.kind = "Some"

C5_NoneOnlyIfTooWide ==
  (AskedWidth /\ \A i \in 1..N : cells[i].width <= display.arg)
    => Returned.kind = "Some"

\* C6: fit_into_columns(c) always succeeds, with ceil(N / c) rows, exactly
\* c columns, each as wide as the widest cell mapped to it (zero when no
\* cell is).
C6_FitIntoColumns ==
  AskedColumns
    => /\ Returned.kind = "Some"
       /\ Returned.num_lines = Ceil(N, display.arg)
       /\ Len(Returned.widths) = display.arg
       /\ \A i \in 1..N :
            MappedColumn(i - 1, Returned.num_lines, display.arg) \in 0..(display.arg - 1)
       /\ \A c \in 1..display.arg :
            Returned.widths[c] = ArrangementWidthsOf(Returned.num_lines, display.arg)[c]

\* For one column or more the statement of C6 holds: only a request for
\* zero columns aborts.
FitIntoColumnsPositive ==
  (AskedColumns /\ display.arg >= 1)
    => /\ Returned.kind = "Some"
       /\ Returned.num_lines = Ceil(N, display.arg)
       /\ Len(Returned.widths) = display.arg
       /\ \A i \in 1..N :
            MappedColumn(i - 1, Returned.num_lines, display.arg) \in 0..(display.arg - 1)
       /\ \A c \in 1..display.arg :
            Returned.widths[c] = ArrangementWidthsOf(Returned.num_lines, display.arg)[c]

\* C7: every layout is rendered consistently: the cell written at row r,
\* column c is the cell at index r * columns + c (row-major) or
\* r + num_lines * c (column-major), positions past the last cell are
\* omitted, every cell is written exactly once, and it is written in the
\* column the solver mapped it to, which is at least as wide as the cell.
C7_RenderingConsistency ==
  output.kind # "Idle"
    => /\ output.kind = "Ok"
       /\ \A k \in 1..Len(output.placed) :
            LET e == output.placed[k]
            IN /\ e.y \in 0..(Returned.num_lines - 1)
               /\ e.x \in 0..(Len(Returned.widths) - 1)
               /\ e.num \in 0..(N - 1)
               /\ e.num = IF options.direction = "LeftToRight"
                          THEN e.y * Len(Returned.widths) + e.x
                          ELSE e.y + Returned.num_lines * e.x
               /\ MappedColumn(e.num, Returned.num_lines, Len(Returned.widths)) = e.x
               /\ Returned.widths[e.x + 1] >= cells[e.num + 1].width
       /\ \A i \in 0..(N - 1) :
            Cardinality({k \in 1..Len(output.placed) : output.placed[k].num = i}) = 1

\* A rendered column-major layout with a ragged last column.
C7_Witness ==
  /\ output.kind = "Ok"
  /\ options.direction = "TopToBottom"
  /\ Returned.num_lines >= 2
  /\ Len(Returned.widths) >= 2
  /\ N < Returned.num_lines * Len(Returned.widths)
  /\ Len(output.placed) = N

\* The twelve words of the documentation example have been added in order
\* to a grid with one space as separator, row-major.
ExampleGrid ==
  /\ options = ExampleOptions
  /\ N = Len(ExampleWords)
  /\ \A i \in 1..N : cells[i] = CellFrom(ExampleWords[i])

ExampleText ==
  "one  two three  four\nfive six seven  eight\nnine ten eleven twelve\n"

\* C8: for the twelve words one..twelve (widths 3,3,5,4,4,3,5,5,4,3,6,6),
\* one space, row-major, fit_into_width(24) returns 3 rows and 4 columns of
\* widths 4,3,6,6, and renders as the documented text.
C8_DocumentedExample ==
  (ExampleGrid /\ AskedWidth /\ display.arg = ExampleWidth)
    => /\ widths_of(cells, N) = <<3, 3, 5, 4, 4, 3, 5, 5, 4, 3, 6, 6>>
       /\ Returned = Some(3, <<4, 3, 6, 6>>)
       /\ row_count(Returned) = 3
       /\ output.kind # "Idle"
            => (output.kind = "Ok" /\ output.text = ExampleText)

\* The example has been laid out and rendered.
C8_Witness ==
  /\ ExampleGrid
  /\ AskedWidth
  /\ display.arg = ExampleWidth
  /\ output.kind = "Ok"

\* C9: a fixed-column request for zero columns, and any layout request on
\* an empty grid, never abort.
C9_NoAbortOnZero ==
  ((AskedColumns /\ display.arg = 0) \/ ((AskedColumns \/ AskedWidth) /\ N = 0))
    => (Returned.kind \notin AbortKinds /\ output.kind \notin AbortKinds)

\* The 48 decimal powers of two have been added in order to a grid with
\* " | " as separator, column-major.
Pow2Grid ==
  /\ options = Pow2Options
  /\ N = Pow2Count
  /\ \A i \in 1..N : cells[i] = CellFrom(Pow2Words[i])

\* C10: no subtraction of the solver or the renderer goes below zero, the
\* padding is never longer than the buffer of widest_cell_length spaces it
\* is sliced from, and fit_into_width(15) on the 48 powers of two returns
\* without an abort.
C10_NoUnderflow ==
  /\ Returned.kind # "SubtractOverflow"
  /\ output.kind \notin {"SubtractOverflow", "IndexOutOfBounds"}
  /\ \A k \in 1..Len(output.placed) :
       output.placed[k].padding_size \in 0..widest_cell_length
  /\ (Pow2Grid /\ AskedWidth /\ display.arg = Pow2Width)
       => Returned.kind \in {"Some", "None"}

\* Two cells narrower than maxWidth and a separator wider than maxWidth:
\* the one-row candidate is the one whose separators exceed maxWidth.
C10_Witness ==
  /\ AskedWidth
  /\ N = 2
  /\ widest_cell_length < display.arg
  /\ SeparatorWidth > display.arg
  /\ Returned.kind \in {"Some", "None"}

\* The regression case has been run.
Pow2Reached == Pow2Grid /\ AskedWidth /\ display.arg = Pow2Width

\* The search loop of width_dimensions has been entered: no early return
\* of fit_into_width applied.
SearchEntered ==
  /\ AskedWidth
  /\ widest_cell_length <= display.arg
  /\ cell_count >= 2
  /\ theoretical_max_num_lines(Grid, display.arg) \notin {Abort, 1}

\* The descending search reaches the candidate with num_lines rows: no
\* candidate before it failed.
Tried(num_lines) ==
  \A earlier \in (num_lines + 1)..theoretical_max_num_lines(Grid, display.arg) :
    candidate(Grid, display.arg, earlier).step \in {"fits", "skip"}

\* The candidates that succeeded and were recorded as the current best.
Succeeded ==
  {num_lines \in 1..theoretical_max_num_lines(Grid, display.arg) :
     Tried(num_lines) /\ candidate(Grid, display.arg, num_lines).step = "fits"}

\* C11: once a candidate of the descending search has succeeded, the result
\* of fit_into_width is present and is the most recently successful
\* candidate; None comes out of the search only if no candidate succeeded.
C11_BestIsKept ==
  (SearchEntered /\ Succeeded # {})
    => LET last == CHOOSE num_lines \in Succeeded :
                     \A other \in Succeeded : num_lines <= other
       IN /\ Returned.kind = "Some"
          /\ Returned = candidate(Grid, display.arg, last).dims

\* The cells (0-based indices) the returned layout maps to column c.
CellsOfColumn(c) ==
  {i \in 0..(N - 1) :
     MappedColumn(i, Returned.num_lines, Len(Returned.widths)) = c}

\* C12 (as stated): is_complete() is false exactly when some column of the
\* layout has no cell mapped to it, whatever the cell widths.
C12_FalseIffEmptyColumn ==
  Returned.kind = "Some"
    => (~is_complete(Returned)
          <=> \E c \in 0..(Len(Returned.widths) - 1) : CellsOfColumn(c) = {})

\* C12 (amended): is_complete() is true exactly when every column has a
\* width greater than zero, that is, when every column holds a cell of
\* non-zero width; it is false when some column has no cell mapped to it
\* and also when all the cells of some column have width zero.
C12_CompleteIffPositive ==
  Returned.kind = "Some"
    => /\ is_complete(Returned)
            <=> \A c \in 0..(Len(Returned.widths) - 1) :
                  \E i \in CellsOfColumn(c) : cells[i + 1].width > 0
       /\ is_complete(Returned)
            => \A c \in 1..Len(Returned.widths) : Returned.widths[c] > 0
       /\ (\E c \in 0..(Len(Returned.widths) - 1) : CellsOfColumn(c) = {})
            => ~is_complete(Returned)

\* Every column holds a cell, one column holds only cells of width zero, and
\* the layout is not complete.
C12_Witness ==
  /\ AskedColumns
  /\ Returned.kind = "Some"
  /\ Len(Returned.widths) >= 2
  /\ \A c \in 0..(Len(Returned.widths) - 1) : CellsOfColumn(c) # {}
  /\ \E c \in 0..(Len(Returned.widths) - 1) :
       \A i \in CellsOfColumn(c) : cells[i + 1].width = 0
  /\ \E c \in 0..(Len(Returned.widths) - 1) :
       \E i \in CellsOfColumn(c) : cells[i + 1].width > 0
  /\ ~is_complete(Returned)

\* More columns were allotted than there are cells, all of them of non-zero
\* width.
C12_WitnessEmptyColumn ==
  /\ AskedColumns
  /\ Returned.kind = "Some"
  /\ N >= 1
  /\ Len(Returned.widths) > N
  /\ \A i \in 1..N : cells[i].width > 0
  /\ ~is_complete(Returned)

\* The strings of f[lo], ..., f[hi] one after the other.
RECURSIVE Concat(_, _, _)
Concat(f, lo, hi) ==
  IF lo > hi THEN ""
  ELSE IF lo = hi THEN f[lo]
  ELSE LET mid == (lo + hi) \div 2
       IN Concat(f, lo, mid) \o Concat(f, mid + 1, hi)

\* count copies of the one-character string char.
Run(char, count) == Concat([k \in 1..count |-> char], 1, count)

\* The separator as the documentation of tab_size describes it.
DocumentedSeparator ==
  IF options.filling.kind = "Text" THEN options.filling.t
  ELSE IF options.tab_size > 0
  THEN LET tabs == CHOOSE q \in 0..options.filling.n :
                     /\ q * options.tab_size <= options.filling.n
                     /\ options.filling.n < (q + 1) * options.tab_size
       IN Run("\t", tabs) \o Run(" ", options.filling.n - tabs * options.tab_size)
  ELSE Run(" ", options.filling.n)

\* What is written at row y, column x: the cell, and unless the column is
\* the last one, col_width - cell.width spaces and the separator.
DocumentedPiece(y, x) ==
  LET index == IF options.direction = "LeftToRight"
               THEN y * Len(Returned.widths) + x
               ELSE y + Returned.num_lines * x
  IN IF index >= N THEN ""
     ELSE IF x = Len(Returned.widths) - 1 THEN cells[index + 1].contents
     ELSE cells[index + 1].contents
            \o Run(" ", Returned.widths[x + 1] - cells[index + 1].width)
            \o DocumentedSeparator

DocumentedText ==
  LET last_column == Len(Returned.widths) - 1
      row == [y \in 0..(Returned.num_lines - 1) |->
                Concat([x \in 0..last_column |-> DocumentedPiece(y, x)],
                       0, last_column) \o "\n"]
  IN Concat(row, 0, Returned.num_lines - 1)

\* C13: tab compression applies to the separator only.  The rendered text
\* is, row by row, every cell followed (except in the last column) by
\* col_width - cell.width plain spaces and one and the same separator:
\* floor(n / t) tabs then n mod t spaces for Spaces(n) with tab_size t > 0,
\* n spaces for tab_size <= 0, the text itself for a Text filling.
C13_TabsOnlyInSeparator ==
  output.kind = "Ok" => output.text = DocumentedText

\* A rendering with Spaces(3) and tab_size 2 (one tab, one space) in which
\* a cell before the last column is padded.
C13_Witness ==
  /\ output.kind = "Ok"
  /\ options.filling = Spaces(3)
  /\ options.tab_size = 2
  /\ \E k \in 1..Len(output.placed) :
       /\ output.placed[k].padding_size > 0
       /\ output.placed[k].x < Len(Returned.widths) - 1

\* A rendering with a separator of spaces and a negative tab_size.
C13_WitnessNegative ==
  /\ output.kind = "Ok"
  /\ options.filling = Spaces(2)
  /\ options.tab_size < 0
  /\ Len(output.placed) >= 2
  /\ Len(Returned.widths) >= 2

\* The bookkeeping of the grid matches its cells.
BookkeepingMatches ==
  /\ cell_count = N
  /\ widest_cell_length = MaxOf({0} \cup {cells[i].width : i \in 1..N})
  /\ width_sum = SumSeq(widths_of(cells, N))

\* When the widest-cell guard of fit_into_width has passed on two cells or
\* more, the greedy bound absorbs the widest cell before it can overflow,
\* and the division by the number of absorbed cells does not abort.
GreedyAbsorbsOne ==
  (AskedWidth /\ N >= 2 /\ widest_cell_length <= display.arg)
    => /\ sort_desc(widths_of(cells, N))[1] <= display.arg
       /\ theoretical_max_num_lines(Grid, display.arg) \in 1..N
       /\ Returned.kind # "DivisionByZero"

\* A step either leaves the cells alone or appends one cell after the cells
\* already there; a layout query or a rendering changes nothing of the grid.
GridStep ==
  /\ \/ cells' = cells
     \/ /\ Len(cells') = Len(cells) + 1
        /\ SubSeq(cells', 1, Len(cells)) = cells
  /\ (display'.op # "none" \/ output'.kind # "Idle")
       => UNCHANGED <<options, cells, widest_cell_length, width_sum, cell_count>>

\* C14: after any sequence of add operations interleaved with layout
\* queries, cell_count is the number of cells, widest_cell_length the
\* maximum cell width (0 when empty), width_sum the sum of the cell widths,
\* the cells are kept in insertion order, queries change none of these, and
\* the greedy bound of theoretical_max_num_lines absorbs at least one cell,
\* so that its division never divides by zero.
C14_Bookkeeping ==
  /\ [](BookkeepingMatches /\ GreedyAbsorbsOne)
  /\ [][GridStep]_vars

\* Three cells of different widths, the widest first, laid out by
\* fit_into_width after the greedy bound overflowed.
C14_Witness ==
  /\ AskedWidth
  /\ N >= 3
  /\ cells[1].width > cells[3].width
  /\ cells[3].width > cells[2].width
  /\ widest_cell_length <= display.arg
  /\ theoretical_max_num_lines(Grid, display.arg) >= 2
  /\ Returned.kind = "Some"

====
